---- MODULE Spec2Model ----
\* Development-time HTML route of gatsby (services/develop-html-route/index.ts)
\* and the dev SSR worker pool (utils/dev-ssr/render-dev-html.ts).
\*
\* Strings the code takes apart (stack traces, file names) are sequences of
\* one-character strings; strings the code only passes along are TLA+ strings.
EXTENDS Integers, Sequences, FiniteSets, TLC

VARIABLES
    \* ---- develop-html-route/index.ts
    machineState,     \* program.developMachineService._state.value
    outsideResolve,   \* the resolver slot: NoReq (undefined) or the request whose resolve it holds
    pc,               \* position of each request's async handler
    reqPath,          \* req.path of each request
    sent,             \* callback("DEVELOP_HTML_REQUEST_RECEIVED") calls made by each request
    nextCalled,       \* next() calls made by each request
    ackSeen,          \* an acknowledgment event was received after the request stored its resolver
    lastObserved,     \* the last value of _state.value the request's second promise read
    interval,         \* the 50ms interval of each request: none, set, cleared
    dispatched,       \* renderHTML calls made by each request
    stateAtDispatch,  \* _state.value at the moment of the request's renderHTML call
    rendered,         \* the value renderHTML resolved with, for each request
    renderFailed,     \* renderHTML rejected, for each request
    span,             \* htmlActivity of each request
    responses,        \* res.status(..).send(..) calls of each request, in order
    lastStored,       \* the request whose resolver was stored last (history)
    lateAck,          \* an acknowledgment called the stored resolver again (history)
    receiveThrows,    \* errors raised inside the onReceive listener
    \* ---- dev-ssr/render-dev-html.ts
    worker,           \* the module-level handle: NoPool (undefined) or a pool
    started,          \* pools created by startWorker so far: 1..started
    ended,            \* pools on which end() has been called
    queue,            \* per pool, the calls waiting for its one worker, oldest first
    running,          \* per pool, the call its one worker is executing (at most one)
    jobState,         \* per renderDevHTML call: none, pending, resolved, rejected
    jobPool,          \* per renderDevHTML call: the pool worker.renderHTML was called on
    jobCalls,         \* per renderDevHTML call: worker.renderHTML calls made for it
    jobResult,        \* per renderDevHTML call: what its promise settled with
    workerValue,      \* per renderDevHTML call: what worker.renderHTML settled with
    warmState,        \* per pool: the warming call (none, pending, settled, lost)
    calls,            \* the statements run on pools, in program order
    restartThrows,    \* TypeErrors raised by restartWorker
    \* ---- the error translator called on its own
    translation       \* the error given to parseError and what came back

gateVars == << machineState, outsideResolve, pc, reqPath, sent, nextCalled, ackSeen,
               lastObserved, interval, dispatched, stateAtDispatch, rendered, renderFailed,
               span, responses, receiveThrows, lastStored, lateAck >>

poolVars == << worker, started, ended, queue, running, jobState, jobPool, jobCalls,
               jobResult, workerValue, warmState, calls, restartThrows >>

transVars == << translation >>

vars == << gateVars, poolVars, transVars >>

\* ------------------------------------------------------------------ bounds

MaxReqs == 2
MaxThrows == 1

Reqs == 1..MaxReqs
NoReq == 0

MaxPools == 2
MaxJobs == 2
MaxStackLines == 3

PoolIds == 1..MaxPools
Jobs == 1..MaxJobs
NoPool == 0

\* ------------------------------------------------------------ environment

\* States of the develop machine; only `waiting` is looked at by the route.
MachineStates == {"waiting", "recompiling"}

\* Events the develop machine can send to the invoked callback service.
EventTypes == {"SEND_DEVELOP_HTML_RESPONSES", "OTHER_EVENT"}

\* store.getState().pages and the paths requests ask for.
Pages == {"/about"}
Paths == {"/about", "/nope"}

IsWaiting(value) == value = "waiting"

\* ------------------------------------------------------- strings (JS, posix)

Chars(s) == {s[i] : i \in 1..Len(s)}

\* Index of the first occurrence of character d in s, 0 when there is none.
IndexOf(s, d) ==
    IF \E i \in 1..Len(s) : s[i] = d
    THEN CHOOSE i \in 1..Len(s) : s[i] = d /\ \A j \in 1..(i - 1) : s[j] # d
    ELSE 0

\* String.prototype.split with a one-character separator: "" splits to [""].
RECURSIVE SplitOn(_, _)
SplitOn(s, d) ==
    LET i == IndexOf(s, d)
    IN  IF i = 0 THEN << s >>
        ELSE << SubSeq(s, 1, i - 1) >> \o SplitOn(SubSeq(s, i + 1, Len(s)), d)

\* Array.prototype.join with a one-character separator.
RECURSIVE JoinWith(_, _)
JoinWith(parts, d) ==
    IF Len(parts) = 0 THEN << >>
    ELSE IF Len(parts) = 1 THEN parts[1]
    ELSE parts[1] \o << d >> \o JoinWith(Tail(parts), d)

\* Array.prototype.slice(n).
SliceFrom(xs, n) == SubSeq(xs, n + 1, Len(xs))

Digits == {"0", "1", "2", "3", "4", "5", "6", "7", "8", "9"}

DigitValue(c) ==
    CASE c = "0" -> 0 [] c = "1" -> 1 [] c = "2" -> 2 [] c = "3" -> 3 [] c = "4" -> 4
      [] c = "5" -> 5 [] c = "6" -> 6 [] c = "7" -> 7 [] c = "8" -> 8 [] c = "9" -> 9

RECURSIVE DecimalValue(_)
DecimalValue(s) ==
    IF Len(s) = 0 THEN 0
    ELSE DecimalValue(SubSeq(s, 1, Len(s) - 1)) * 10 + DigitValue(s[Len(s)])

\* String.prototype.trim, for the blank the stacks here contain.
RECURSIVE TrimBlanks(_)
TrimBlanks(s) ==
    IF Len(s) > 0 /\ s[1] = " " THEN TrimBlanks(Tail(s))
    ELSE IF Len(s) > 0 /\ s[Len(s)] = " " THEN TrimBlanks(SubSeq(s, 1, Len(s) - 1))
    ELSE s

\* A JS value that may be undefined, and a JS number that may be NaN.
Undefined == [undef |-> TRUE, s |-> << >>]
Defined(s) == [undef |-> FALSE, s |-> s]
NaN == [nan |-> TRUE, n |-> 0]
Num(n) == [nan |-> FALSE, n |-> n]

\* Number(v) for undefined and for strings of digits, blanks and other
\* characters: undefined is NaN, a blank string is 0, a run of digits is its
\* decimal value, anything else over the alphabets used here is NaN.
ToNumber(v) ==
    IF v.undef THEN NaN
    ELSE LET t == TrimBlanks(v.s)
         IN  IF Chars(t) \subseteq Digits THEN Num(DecimalValue(t)) ELSE NaN

\* xs[i] of a JS array, undefined outside 0..length-1 (i is 0-based).
ArrayAt(xs, i) == IF i >= 0 /\ i < Len(xs) THEN Defined(xs[i + 1]) ELSE Undefined

\* /\(.+?\)$/.test(s): a "(" followed by at least one character and a final ")".
TestParen(s) ==
    /\ Len(s) >= 3
    /\ s[Len(s)] = ")"
    /\ \E i \in 1..(Len(s) - 2) : s[i] = "("

\* s.match(/(?:\()(.+?)(?:\))$/): null, or group 1, the text between the
\* leftmost "(" that has a character after it and the final ")".
MatchParen(s) ==
    IF TestParen(s)
    THEN LET i == CHOOSE k \in 1..(Len(s) - 2) :
                      s[k] = "(" /\ \A j \in 1..(k - 1) : s[j] # "("
         IN  [null |-> FALSE, group |-> SubSeq(s, i + 1, Len(s) - 1)]
    ELSE [null |-> TRUE, group |-> << >>]

\* path.sep and path.join of the posix path module.
PathSep == "/"

RECURSIVE NormalizeSegments(_, _, _)
NormalizeSegments(segs, acc, absolute) ==
    IF Len(segs) = 0 THEN acc
    ELSE LET seg == segs[1]
             dotdot == << ".", "." >>
             acc2 == IF seg = << >> \/ seg = << "." >> THEN acc
                     ELSE IF seg = dotdot
                          THEN IF Len(acc) > 0 /\ acc[Len(acc)] # dotdot
                               THEN SubSeq(acc, 1, Len(acc) - 1)
                               ELSE IF absolute THEN acc ELSE Append(acc, seg)
                          ELSE Append(acc, seg)
         IN  NormalizeSegments(Tail(segs), acc2, absolute)

PathNormalize(p) ==
    IF Len(p) = 0 THEN << "." >>
    ELSE LET absolute == p[1] = PathSep
             trailing == p[Len(p)] = PathSep
             body == JoinWith(NormalizeSegments(SplitOn(p, PathSep), << >>, absolute), PathSep)
             body2 == IF Len(body) = 0 /\ ~absolute THEN << "." >> ELSE body
             body3 == IF Len(body) > 0 /\ trailing THEN Append(body2, PathSep) ELSE body2
         IN  IF absolute THEN << PathSep >> \o body3 ELSE body3

\* The arguments path.join keeps: the non-empty ones.
RECURSIVE NonEmptyArgs(_)
NonEmptyArgs(args) ==
    IF Len(args) = 0 THEN << >>
    ELSE (IF Len(args[1]) > 0 THEN << args[1] >> ELSE << >>) \o NonEmptyArgs(Tail(args))

PathJoin(args) ==
    LET used == NonEmptyArgs(args)
    IN  IF Len(used) = 0 THEN << "." >> ELSE PathNormalize(JoinWith(used, PathSep))

\* --------------------------------------------- error translator (index.ts)

\* program.directory
ProgramDirectory == << "/", "p", "r", "o", "j", "e", "c", "t" >>

\* The files fs.readFileSync can read.
ReadableFiles ==
    { ProgramDirectory \o << "/", "b", "/", "c", ".", "j", "s" >>,
      ProgramDirectory \o << "/", "l", "i", "b", "/", "r", "e", "n", "d", "e", "r", "-", "p", "a", "g", "e", ".", "j", "s" >> }

\* stackObject.filter(s => /\(.+?\)$/.test(s))
RECURSIVE FilterStack(_)
FilterStack(stackObject) ==
    IF Len(stackObject) = 0 THEN << >>
    ELSE (IF TestParen(stackObject[1]) THEN << stackObject[1] >> ELSE << >>)
         \o FilterStack(Tail(stackObject))

\* getPosition: the try block reads the location off the first line that
\* ends in a parenthesised location, or off the first line; an exception in it
\* (match returning null) is caught and gives "", 0, 0.
getPosition(stackObject) ==
    LET filteredStack == FilterStack(stackObject)
        matched == IF Len(filteredStack) > 0 THEN MatchParen(filteredStack[1])
                   ELSE [null |-> FALSE, group |-> stackObject[1]]
        splitLine == SplitOn(matched.group, ":")
        splitLength == Len(splitLine)
    IN  IF matched.null
        THEN [filename |-> Defined(<< >>), line |-> Num(0), row |-> Num(0)]
        ELSE [filename |-> ArrayAt(splitLine, splitLength - 3),
              line |-> ToNumber(ArrayAt(splitLine, splitLength - 2)),
              row |-> ToNumber(ArrayAt(splitLine, splitLength - 1))]

\* The last line of err.message, "" when there is no message.
LastLine(message) ==
    LET splitMessage == SplitOn(message, "\n") IN splitMessage[Len(splitMessage)]

\* What parseError does when it raises instead of returning.
ParseErrorThrows(kind) ==
    [threw |-> TRUE, error |-> kind, filename |-> << >>, line |-> NaN, row |-> NaN,
     message |-> << >>, type |-> ""]

\* path.join(program.directory, ...position.filename.split(path.sep).slice(3))
SourceFilenameDropsThree(positionFilename) ==
    PathJoin(<< ProgramDirectory >> \o SliceFrom(SplitOn(positionFilename, PathSep), 3))

\* path.join(program.directory, ...position.filename.split(path.sep).slice(2))
SourceFilename(positionFilename) ==
    PathJoin(<< ProgramDirectory >> \o SliceFrom(SplitOn(positionFilename, PathSep), 2))

\* parseError: position.filename.split raises a TypeError when the position has
\* no filename, fs.readFileSync raises when the file cannot be read; neither is
\* caught inside parseError.
parseError(err) ==
    LET stack == IF err.hasStack THEN err.stack ELSE << >>
        stackObject == SplitOn(stack, "\n")
        position == getPosition(stackObject)
    IN  IF position.filename.undef THEN ParseErrorThrows("TypeError")
        ELSE LET filename == SourceFilename(position.filename.s)
             IN  IF filename \notin ReadableFiles THEN ParseErrorThrows("ENOENT")
                 ELSE [threw |-> FALSE, error |-> "", filename |-> filename,
                       line |-> position.line, row |-> position.row,
                       message |-> LastLine(err.message),
                       type |-> IF err.type # "" THEN err.type ELSE err.name]

\* Errors a render can be rejected with.
StackGarbage == << "g", "a", "r", "b", "a", "g", "e" >>
StackReadable == << "a", "t", " ", "f", " ", "(", "/", "l", "/", "b", "/", "c",
                    ".", "j", "s", ":", "4", ":", "2", ")" >>
StackUnreadable == << "a", "t", " ", "f", " ", "(", "/", "l", "/", "x",
                      ".", "j", "s", ":", "1", ":", "1", ")" >>
MessageBoom == << "b", "o", "o", "m" >>

MakeError(hasStack, stack) ==
    [hasStack |-> hasStack, stack |-> stack, message |-> MessageBoom, type |-> "",
     name |-> "Error"]

RenderErrors ==
    { MakeError(FALSE, << >>), MakeError(TRUE, StackGarbage),
      MakeError(TRUE, StackReadable), MakeError(TRUE, StackUnreadable) }

\* ------------------------------------------------- request gate (index.ts)

\* What the worker render resolves with: a sequence of rendered strings.
RenderResults == { << "<html>About</html>" >>, << "<html>A</html>", "<html>B</html>" >> }

\* renderResponse[renderResponse.length - 1]
LastElement(renderResponse) ==
    IF Len(renderResponse) > 0 THEN renderResponse[Len(renderResponse)] ELSE "undefined"

\* renderResponse[0]
FirstElement(renderResponse) ==
    IF Len(renderResponse) > 0 THEN renderResponse[1] ELSE "undefined"

NoRender == << >>

GateInit ==
    /\ machineState \in MachineStates
    /\ outsideResolve = NoReq
    /\ pc = [r \in Reqs |-> "idle"]
    /\ reqPath = [r \in Reqs |-> "none"]
    /\ sent = [r \in Reqs |-> 0]
    /\ nextCalled = [r \in Reqs |-> 0]
    /\ ackSeen = [r \in Reqs |-> FALSE]
    /\ lastObserved = [r \in Reqs |-> "none"]
    /\ interval = [r \in Reqs |-> "none"]
    /\ dispatched = [r \in Reqs |-> 0]
    /\ stateAtDispatch = [r \in Reqs |-> "none"]
    /\ rendered = [r \in Reqs |-> NoRender]
    /\ renderFailed = [r \in Reqs |-> FALSE]
    /\ span = [r \in Reqs |-> "none"]
    /\ responses = [r \in Reqs |-> << >>]
    /\ receiveThrows = 0
    /\ lastStored = NoReq
    /\ lateAck = FALSE

\* The develop machine moves to another state.
MachineTransition ==
    /\ \E s \in MachineStates \ {machineState} : machineState' = s
    /\ UNCHANGED << lastStored, lateAck, outsideResolve, pc, reqPath, sent, nextCalled, ackSeen, lastObserved,
                    interval, dispatched, stateAtDispatch, rendered, renderFailed, span,
                    responses, receiveThrows >>

\* The requests that have stored a resolver and sent their signal.
Stored == {r \in Reqs : sent[r] > 0}

\* A listener that calls outsideResolve() on every event.
ResumesOnAnyEvent(type) == TRUE

\* The event types on which the listener calls outsideResolve().
Resumes(type) == type = "SEND_DEVELOP_HTML_RESPONSES"

\* An acknowledgment that arrives when the stored resolver's promise is already
\* resolved.
LateAcknowledgment(type) ==
    /\ type = "SEND_DEVELOP_HTML_RESPONSES"
    /\ outsideResolve # NoReq
    /\ pc[outsideResolve] # "awaitAck"

\* A listener that keeps every resolver and calls them all on an acknowledgment.
ReceiveResumesAllStored(type) ==
    /\ ackSeen' = [r \in Reqs |->
                      ackSeen[r] \/ (type = "SEND_DEVELOP_HTML_RESPONSES" /\ r \in Stored)]
    /\ lateAck' = (lateAck \/ LateAcknowledgment(type))
    /\ IF Resumes(type)
       THEN IF outsideResolve = NoReq
            THEN /\ receiveThrows < MaxThrows
                 /\ receiveThrows' = receiveThrows + 1
                 /\ UNCHANGED pc
            ELSE /\ pc' = [r \in Reqs |-> IF pc[r] = "awaitAck" THEN "acked" ELSE pc[r]]
                 /\ UNCHANGED receiveThrows
       ELSE UNCHANGED << pc, receiveThrows >>
    /\ UNCHANGED << lastStored, machineState, outsideResolve, reqPath, sent, nextCalled, lastObserved,
                    interval, dispatched, stateAtDispatch, rendered, renderFailed, span,
                    responses >>

\* A listener whose call of an already resolved resolver resumes the finished request again.
ReceiveResumesResolved(type) ==
    /\ ackSeen' = [r \in Reqs |->
                      ackSeen[r] \/ (type = "SEND_DEVELOP_HTML_RESPONSES" /\ r \in Stored)]
    /\ lateAck' = (lateAck \/ LateAcknowledgment(type))
    /\ IF Resumes(type)
       THEN IF outsideResolve = NoReq
            THEN /\ receiveThrows < MaxThrows
                 /\ receiveThrows' = receiveThrows + 1
                 /\ UNCHANGED pc
            ELSE /\ pc' = IF pc[outsideResolve] \in {"awaitAck", "done"}
                          THEN [pc EXCEPT ![outsideResolve] = "acked"]
                          ELSE pc
                 /\ UNCHANGED receiveThrows
       ELSE UNCHANGED << pc, receiveThrows >>
    /\ UNCHANGED << lastStored, machineState, outsideResolve, reqPath, sent, nextCalled, lastObserved,
                    interval, dispatched, stateAtDispatch, rendered, renderFailed, span,
                    responses >>

\* A listener that calls outsideResolve only when a resolver is stored.
ReceiveIgnoresEmptySlot(type) ==
    /\ ackSeen' = [r \in Reqs |->
                      ackSeen[r] \/ (type = "SEND_DEVELOP_HTML_RESPONSES" /\ r \in Stored)]
    /\ lateAck' = (lateAck \/ LateAcknowledgment(type))
    /\ IF Resumes(type) /\ outsideResolve # NoReq
       THEN /\ pc' = IF pc[outsideResolve] = "awaitAck"
                     THEN [pc EXCEPT ![outsideResolve] = "acked"]
                     ELSE pc
            /\ UNCHANGED receiveThrows
       ELSE UNCHANGED << pc, receiveThrows >>
    /\ UNCHANGED << lastStored, machineState, outsideResolve, reqPath, sent, nextCalled, lastObserved,
                    interval, dispatched, stateAtDispatch, rendered, renderFailed, span,
                    responses >>

\* onReceive listener: on an acknowledgment, outsideResolve() is called: a
\* TypeError while the slot is undefined, the resumption of the request whose
\* resolver is stored while its promise is pending, nothing once it is resolved.
\* ackSeen records the acknowledgments the machine sent, whatever the listener
\* does with them.
Receive(type) ==
    /\ ackSeen' = [r \in Reqs |->
                      ackSeen[r] \/ (type = "SEND_DEVELOP_HTML_RESPONSES" /\ r \in Stored)]
    /\ lateAck' = (lateAck \/ LateAcknowledgment(type))
    /\ IF Resumes(type)
       THEN IF outsideResolve = NoReq
            THEN /\ receiveThrows < MaxThrows
                 /\ receiveThrows' = receiveThrows + 1
                 /\ UNCHANGED pc
            ELSE /\ pc' = IF pc[outsideResolve] = "awaitAck"
                          THEN [pc EXCEPT ![outsideResolve] = "acked"]
                          ELSE pc
                 /\ UNCHANGED receiveThrows
       ELSE UNCHANGED << pc, receiveThrows >>
    /\ UNCHANGED << lastStored, machineState, outsideResolve, reqPath, sent, nextCalled, lastObserved,
                    interval, dispatched, stateAtDispatch, rendered, renderFailed, span,
                    responses >>

\* app.get handler up to its first suspension: an unknown path goes to next();
\* a known path stores its resolver, signals the machine and suspends.
PassThrough(r, path) ==
    /\ pc' = [pc EXCEPT ![r] = "passed"]
    /\ reqPath' = [reqPath EXCEPT ![r] = path]
    /\ nextCalled' = [nextCalled EXCEPT ![r] = @ + 1]
    /\ UNCHANGED << lastStored, lateAck, machineState, outsideResolve, sent, ackSeen, lastObserved, interval,
                    dispatched, stateAtDispatch, rendered, renderFailed, span, responses,
                    receiveThrows >>

\* A handler that stores its resolver only while the slot is empty.
StoreAndSignalKeepsSlot(r, path) ==
    /\ pc' = [pc EXCEPT ![r] = "awaitAck"]
    /\ reqPath' = [reqPath EXCEPT ![r] = path]
    /\ outsideResolve' = IF outsideResolve = NoReq THEN r ELSE outsideResolve
    /\ lastStored' = r
    /\ lateAck' = FALSE
    /\ sent' = [sent EXCEPT ![r] = @ + 1]
    /\ UNCHANGED << machineState, nextCalled, ackSeen, lastObserved, interval, dispatched,
                    stateAtDispatch, rendered, renderFailed, span, responses,
                    receiveThrows >>

StoreAndSignal(r, path) ==
    /\ pc' = [pc EXCEPT ![r] = "awaitAck"]
    /\ reqPath' = [reqPath EXCEPT ![r] = path]
    /\ outsideResolve' = r
    /\ lastStored' = r
    /\ lateAck' = FALSE
    /\ sent' = [sent EXCEPT ![r] = @ + 1]
    /\ UNCHANGED << machineState, nextCalled, ackSeen, lastObserved, interval, dispatched,
                    stateAtDispatch, rendered, renderFailed, span, responses,
                    receiveThrows >>

\* A handler that stores and signals before looking at the page registry.
RequestNoRegistryCheck(r, path) ==
    /\ pc[r] = "idle"
    /\ StoreAndSignal(r, path)

Request(r, path) ==
    /\ pc[r] = "idle"
    /\ IF path \notin Pages THEN PassThrough(r, path) ELSE StoreAndSignal(r, path)

\* CheckWaiting without the poll: the second promise resolves at once whatever
\* the machine's state.
CheckWaitingNoPoll(r) ==
    /\ pc[r] = "acked"
    /\ lastObserved' = [lastObserved EXCEPT ![r] = machineState]
    /\ pc' = [pc EXCEPT ![r] = "ready"]
    /\ UNCHANGED << lastStored, lateAck, machineState, outsideResolve, reqPath, sent, nextCalled, ackSeen,
                    interval, dispatched, stateAtDispatch, rendered, renderFailed, span,
                    responses, receiveThrows >>

\* The handler resumes after the acknowledgment and runs the executor of the
\* second promise: resolve at once when the machine is waiting, else start the
\* 50ms interval.
CheckWaiting(r) ==
    /\ pc[r] = "acked"
    /\ lastObserved' = [lastObserved EXCEPT ![r] = machineState]
    /\ IF IsWaiting(machineState)
       THEN /\ pc' = [pc EXCEPT ![r] = "ready"]
            /\ UNCHANGED interval
       ELSE /\ pc' = [pc EXCEPT ![r] = "polling"]
            /\ interval' = [interval EXCEPT ![r] = "set"]
    /\ UNCHANGED << lastStored, lateAck, machineState, outsideResolve, reqPath, sent, nextCalled, ackSeen,
                    dispatched, stateAtDispatch, rendered, renderFailed, span, responses,
                    receiveThrows >>

\* One tick of the interval: clearInterval and resolve when the machine is waiting.
PollTick(r) ==
    /\ interval[r] = "set"
    /\ lastObserved' = [lastObserved EXCEPT ![r] = machineState]
    /\ IF IsWaiting(machineState)
       THEN /\ interval' = [interval EXCEPT ![r] = "cleared"]
            /\ pc' = [pc EXCEPT ![r] = "ready"]
       ELSE UNCHANGED << interval, pc >>
    /\ UNCHANGED << lastStored, lateAck, machineState, outsideResolve, reqPath, sent, nextCalled, ackSeen,
                    dispatched, stateAtDispatch, rendered, renderFailed, span, responses,
                    receiveThrows >>

\* The handler resumes after the second promise: htmlActivity.start() and the
\* renderHTML call.
StartRender(r) ==
    /\ pc[r] = "ready"
    /\ span' = [span EXCEPT ![r] = "started"]
    /\ dispatched' = [dispatched EXCEPT ![r] = @ + 1]
    /\ stateAtDispatch' = [stateAtDispatch EXCEPT ![r] = machineState]
    /\ pc' = [pc EXCEPT ![r] = "rendering"]
    /\ UNCHANGED << lastStored, lateAck, machineState, outsideResolve, reqPath, sent, nextCalled, ackSeen,
                    lastObserved, interval, rendered, renderFailed, responses,
                    receiveThrows >>

Response(status, body) == [status |-> status, body |-> body]

\* renderHTML resolves: 200 with renderResponse[0], then htmlActivity.end().
RenderResolves(r, renderResponse) ==
    /\ pc[r] = "rendering"
    /\ rendered' = [rendered EXCEPT ![r] = renderResponse]
    /\ responses' = [responses EXCEPT
                        ![r] = Append(@, Response(200, FirstElement(renderResponse)))]
    /\ span' = [span EXCEPT ![r] = "ended"]
    /\ pc' = [pc EXCEPT ![r] = "done"]
    /\ UNCHANGED << lastStored, lateAck, machineState, outsideResolve, reqPath, sent, nextCalled, ackSeen,
                    lastObserved, interval, dispatched, stateAtDispatch, renderFailed,
                    receiveThrows >>

\* The 500 page: URL path, file path, message and code frame position.
ErrorPage(path, error) ==
    [path |-> path, filename |-> error.filename, message |-> error.message,
     line |-> error.line, row |-> error.row]

\* renderHTML rejects: the catch block calls parseError; when that returns, 500
\* with the error page, then htmlActivity.end(); when it raises, the handler's
\* promise rejects there, before any send and before htmlActivity.end().
RenderRejects(r, err) ==
    /\ pc[r] = "rendering"
    /\ renderFailed' = [renderFailed EXCEPT ![r] = TRUE]
    /\ LET error == parseError(err)
       IN  IF error.threw
           THEN /\ pc' = [pc EXCEPT ![r] = "rejected"]
                /\ UNCHANGED << responses, span >>
           ELSE /\ responses' = [responses EXCEPT
                                    ![r] = Append(@, Response(500, ErrorPage(reqPath[r], error)))]
                /\ span' = [span EXCEPT ![r] = "ended"]
                /\ pc' = [pc EXCEPT ![r] = "done"]
    /\ UNCHANGED << lastStored, lateAck, machineState, outsideResolve, reqPath, sent, nextCalled, ackSeen,
                    lastObserved, interval, dispatched, stateAtDispatch, rendered,
                    receiveThrows >>

\* ---------------------------------------- worker pool (render-dev-html.ts)

\* A call on a pool's renderHTML: the warming call of the pool, or the call
\* made for a renderDevHTML job.
WarmTask(p) == [kind |-> "warming", id |-> p]
JobTask(j) == [kind |-> "job", id |-> j]

\* JS values that cross the worker boundary: an array of strings, a string,
\* an error (by name), or nothing yet.
ArrayValue(items) == [kind |-> "array", items |-> items]
StringValue(s) == [kind |-> "string", items |-> << s >>]
ErrorValue(name) == [kind |-> "error", items |-> << name >>]
NoValue == [kind |-> "none", items |-> << >>]

PoolInit ==
    /\ worker = NoPool
    /\ started = 0
    /\ ended = {}
    /\ queue = [p \in PoolIds |-> << >>]
    /\ running = [p \in PoolIds |-> {}]
    /\ jobState = [j \in Jobs |-> "none"]
    /\ jobPool = [j \in Jobs |-> NoPool]
    /\ jobCalls = [j \in Jobs |-> 0]
    /\ jobResult = [j \in Jobs |-> NoValue]
    /\ workerValue = [j \in Jobs |-> NoValue]
    /\ warmState = [p \in PoolIds |-> "none"]
    /\ calls = << >>
    /\ restartThrows = 0

\* A startWorker that awaits its warming call: the pool is handed back with
\* the warming render already settled.
StartWorkerAwaitsWarming ==
    /\ started < MaxPools
    /\ started' = started + 1
    /\ queue' = [queue EXCEPT ![started + 1] = << >>]
    /\ warmState' = [warmState EXCEPT ![started + 1] = "settled"]

\* startWorker: new JestWorker(.., numWorkers: 1) and the warming call on it,
\* which is not awaited. The new pool is started + 1.
StartWorkerEffects ==
    /\ started < MaxPools
    /\ started' = started + 1
    /\ queue' = [queue EXCEPT ![started + 1] = << WarmTask(started + 1) >>]
    /\ warmState' = [warmState EXCEPT ![started + 1] = "pending"]

\* initDevWorkerPool: worker = startWorker()
InitDevWorkerPool ==
    /\ StartWorkerEffects
    /\ worker' = started + 1
    /\ calls' = calls \o << << "start", started + 1 >>, << "assign", started + 1 >> >>
    /\ UNCHANGED << ended, running, jobState, jobPool, jobCalls, jobResult, workerValue,
                    restartThrows >>

\* A restartWorker that leaves the old pool installed.
RestartKeepsOld(oldWorker, newWorker) == oldWorker

\* A restartWorker that calls end() on the pool it has just created.
RestartEndsNew(oldWorker, newWorker) == newWorker

\* The handle restartWorker installs, and the pool it calls end() on.
RestartInstalls(oldWorker, newWorker) == newWorker
RestartEnds(oldWorker, newWorker) == oldWorker

\* restartWorker: oldWorker = worker; newWorker = startWorker();
\* worker = newWorker; oldWorker.end(), a TypeError when oldWorker is undefined.
RestartWorker ==
    LET oldWorker == worker
        newWorker == started + 1
        toEnd == RestartEnds(oldWorker, newWorker)
    IN  /\ StartWorkerEffects
        /\ worker' = RestartInstalls(oldWorker, newWorker)
        /\ IF toEnd = NoPool
           THEN /\ restartThrows' = restartThrows + 1
                /\ calls' = calls \o << << "start", newWorker >>,
                                        << "assign", RestartInstalls(oldWorker, newWorker) >> >>
                /\ UNCHANGED ended
           ELSE /\ ended' = ended \cup {toEnd}
                /\ calls' = calls \o << << "start", newWorker >>,
                                        << "assign", RestartInstalls(oldWorker, newWorker) >>,
                                        << "end", toEnd >> >>
                /\ UNCHANGED restartThrows
        /\ UNCHANGED << running, jobState, jobPool, jobCalls, jobResult, workerValue >>

\* A renderDevHTML that resolves with response[0] (the first character of a
\* string response).
ResolutionFirstElement(response) ==
    IF response.kind = "array" /\ Len(response.items) > 0
    THEN StringValue(response.items[1])
    ELSE IF response.kind = "string" THEN StringValue("<")
    ELSE [kind |-> "undefined", items |-> << >>]

\* A renderDevHTML that rejects with a new error in place of the worker's.
RejectionWrapped(error) == ErrorValue("Error")

\* resolve(response) and reject(error): the value passed on is the one received.
Resolution(response) == response
Rejection(error) == error

\* The pool a renderDevHTML call reads from the handle.
CurrentPool == worker

\* renderDevHTML up to its await: worker.renderHTML(..) on the current pool,
\* a TypeError (caught, reject(error)) when the handle is undefined.
RenderDevHTML(j) ==
    /\ jobState[j] = "none"
    /\ IF CurrentPool = NoPool
       THEN /\ jobState' = [jobState EXCEPT ![j] = "rejected"]
            /\ jobResult' = [jobResult EXCEPT ![j] = Rejection(ErrorValue("TypeError"))]
            /\ UNCHANGED << queue, jobPool, jobCalls >>
       ELSE /\ jobState' = [jobState EXCEPT ![j] = "pending"]
            /\ jobPool' = [jobPool EXCEPT ![j] = CurrentPool]
            /\ jobCalls' = [jobCalls EXCEPT ![j] = @ + 1]
            /\ queue' = [queue EXCEPT ![CurrentPool] = Append(@, JobTask(j))]
            /\ UNCHANGED jobResult
    /\ UNCHANGED << worker, started, ended, running, workerValue, warmState, calls,
                    restartThrows >>

\* The one worker of pool p takes the oldest waiting call; a pool that was
\* told to end is sent no further call.
TaskStarts(p) ==
    /\ p \in 1..started
    /\ p \notin ended
    /\ running[p] = {}
    /\ Len(queue[p]) > 0
    /\ running' = [running EXCEPT ![p] = {Head(queue[p])}]
    /\ queue' = [queue EXCEPT ![p] = Tail(@)]
    /\ UNCHANGED << worker, started, ended, jobState, jobPool, jobCalls, jobResult,
                    workerValue, warmState, calls, restartThrows >>

\* What the worker's renderHTML can settle a call with.
WorkerOutcomes ==
    { [ok |-> TRUE, value |-> ArrayValue(<< "<html>About</html>" >>)],
      [ok |-> TRUE, value |-> StringValue("<html>About</html>")],
      [ok |-> FALSE, value |-> ErrorValue("RenderError")] }

\* The call pool p is executing settles: renderDevHTML resolves with the
\* response or rejects with the error; the warming call's result is dropped.
TaskSettles(p, outcome) ==
    /\ running[p] # {}
    /\ LET task == CHOOSE t \in running[p] : TRUE
       IN  IF task.kind = "warming"
           THEN /\ warmState' = [warmState EXCEPT ![p] = "settled"]
                /\ UNCHANGED << jobState, jobResult, workerValue >>
           ELSE /\ jobState' = [jobState EXCEPT
                                   ![task.id] = IF outcome.ok THEN "resolved" ELSE "rejected"]
                /\ workerValue' = [workerValue EXCEPT ![task.id] = outcome.value]
                /\ jobResult' = [jobResult EXCEPT
                                    ![task.id] = IF outcome.ok THEN Resolution(outcome.value)
                                                 ELSE Rejection(outcome.value)]
                /\ UNCHANGED warmState
    /\ running' = [running EXCEPT ![p] = {}]
    /\ UNCHANGED << worker, started, ended, queue, jobPool, jobCalls, calls, restartThrows >>

\* After end() the worker of pool p exits: the call it is executing and the
\* calls waiting for it never settle.
WorkerExits(p) ==
    /\ p \in ended
    /\ running[p] # {} \/ Len(queue[p]) > 0
    /\ running' = [running EXCEPT ![p] = {}]
    /\ queue' = [queue EXCEPT ![p] = << >>]
    /\ warmState' = [warmState EXCEPT ![p] = IF @ = "pending" THEN "lost" ELSE @]
    /\ UNCHANGED << worker, started, ended, jobState, jobPool, jobCalls, jobResult,
                    workerValue, calls, restartThrows >>

\* ------------------------------------- the error translator on its own

\* Stack lines: a line with no location, the location of render-page.js under
\* /project/lib, locations of a readable and an unreadable file, a message
\* line, an empty line, a bare location, and a location without parentheses.
LineRenderPage ==
    << "a", "t", " ", "f", " ", "(", "/", "p", "r", "o", "j", "e", "c", "t", "/", "l",
       "i", "b", "/", "r", "e", "n", "d", "e", "r", "-", "p", "a", "g", "e", ".", "j",
       "s", ":", "4", "2", ":", "7", ")" >>
LineMessage ==
    << "E", "r", "r", "o", "r", ":", " ", "b", "o", "o", "m" >>
LineBareLocation ==
    << "(", "4", ":", "2", ")" >>
LineNoParens ==
    << "x", ":", "/", "l", "/", "b", "/", "c", ".", "j", "s", ":", "4", ":", "2" >>

StackLines ==
    { StackGarbage, LineRenderPage, StackReadable, StackUnreadable, LineMessage, << >>,
      LineBareLocation, LineNoParens }

\* err.stack: up to MaxStackLines lines joined by newlines.
StackInputs ==
    { JoinWith(ls, "\n") : ls \in UNION { [1..n -> StackLines] : n \in 1..MaxStackLines } }

TranslatorErrors == { MakeError(TRUE, s) : s \in StackInputs } \cup { MakeError(FALSE, << >>) }

NoPosition == [filename |-> Undefined, line |-> NaN, row |-> NaN]

TransInit ==
    translation = [called |-> FALSE, err |-> MakeError(FALSE, << >>),
                   position |-> NoPosition, filename |-> Undefined,
                   parsed |-> ParseErrorThrows("")]

\* parseError(err) is called once; position is what its getPosition call
\* returned, filename what path.join returned when it was reached.
Translate(err) ==
    LET position == getPosition(SplitOn(IF err.hasStack THEN err.stack ELSE << >>, "\n"))
    IN  /\ ~translation.called
        /\ translation' =
              [called |-> TRUE, err |-> err, position |-> position,
               filename |-> IF position.filename.undef THEN Undefined
                            ELSE Defined(SourceFilename(position.filename.s)),
               parsed |-> parseError(err)]

\* ---------------------------------------------------------- specifications

Init == GateInit /\ PoolInit /\ TransInit

\* The route, with the pool left alone.
Next ==
    \/ MachineTransition /\ UNCHANGED << poolVars, transVars >>
    \/ \E type \in EventTypes : Receive(type) /\ UNCHANGED << poolVars, transVars >>
    \/ \E r \in Reqs, path \in Paths : Request(r, path) /\ UNCHANGED << poolVars, transVars >>
    \/ \E r \in Reqs : CheckWaiting(r) /\ UNCHANGED << poolVars, transVars >>
    \/ \E r \in Reqs : PollTick(r) /\ UNCHANGED << poolVars, transVars >>
    \/ \E r \in Reqs : StartRender(r) /\ UNCHANGED << poolVars, transVars >>
    \/ \E r \in Reqs, renderResponse \in RenderResults :
          RenderResolves(r, renderResponse) /\ UNCHANGED << poolVars, transVars >>
    \/ \E r \in Reqs, err \in RenderErrors : RenderRejects(r, err) /\ UNCHANGED << poolVars, transVars >>

Spec == Init /\ [][Next]_vars

\* The pool, with the route left alone.
NextPool ==
    \/ InitDevWorkerPool /\ UNCHANGED << gateVars, transVars >>
    \/ RestartWorker /\ UNCHANGED << gateVars, transVars >>
    \/ \E j \in Jobs : RenderDevHTML(j) /\ UNCHANGED << gateVars, transVars >>
    \/ \E p \in PoolIds : TaskStarts(p) /\ UNCHANGED << gateVars, transVars >>
    \/ \E p \in PoolIds, outcome \in WorkerOutcomes :
          TaskSettles(p, outcome) /\ UNCHANGED << gateVars, transVars >>
    \/ \E p \in PoolIds : WorkerExits(p) /\ UNCHANGED << gateVars, transVars >>

InitPool == Init /\ IsWaiting(machineState)

PoolSpec == InitPool /\ [][NextPool]_vars

\* The error translator, with the route and the pool left alone.
NextTranslator ==
    \E err \in TranslatorErrors : Translate(err) /\ UNCHANGED << gateVars, poolVars >>

TranslatorSpec == InitPool /\ [][NextTranslator]_vars

\* ------------------------------------------------------------ route claims

Finished(r) == pc[r] \in {"done", "rejected"}

\* C1 as stated: the gate calls renderHTML only at a moment when the machine's
\* state is `waiting`.
C1_DispatchOnlyWhileWaiting ==
    \A r \in Reqs : dispatched[r] > 0 => stateAtDispatch[r] = "waiting"

\* What the code does guarantee about the dispatch: renderHTML is called for a
\* request only after the request, resumed by an acknowledgment, has read
\* `waiting` as the machine's state, at once or in a tick of the poll; while
\* the poll runs because the machine was in another state, the request has
\* made no renderHTML call.
C1_DispatchAfterObservedWaiting ==
    \A r \in Reqs :
        /\ (pc[r] = "ready" \/ dispatched[r] > 0) => lastObserved[r] = "waiting"
        /\ interval[r] = "set" => (dispatched[r] = 0 /\ lastObserved[r] # "waiting")

\* A request acknowledged while the machine was not waiting has been held by
\* the poll and has then made its renderHTML call.
C1_Witness ==
    \E r \in Reqs : interval[r] = "cleared" /\ dispatched[r] = 1

\* C2: a request makes no renderHTML call, and does not leave its first
\* suspension, before an acknowledgment event sent after it stored its
\* resolver and signalled; an event of another type resumes no request.
C2_NoDispatchBeforeAck ==
    \A r \in Reqs :
        (dispatched[r] > 0 \/ pc[r] \notin {"idle", "passed", "awaitAck"}) => ackSeen[r]

\* A request is rendering after its acknowledgment.
C2_Witness ==
    \E r \in Reqs : pc[r] = "rendering" /\ ackSeen[r] /\ sent[r] = 1

\* C3 as stated: no render dispatched by the gate is in flight while the
\* machine is in a state other than `waiting`.
C3_NoRenderInFlightWhileBusy ==
    \A r \in Reqs : pc[r] = "rendering" => machineState = "waiting"

\* C7 as stated: whenever renderHTML fails for a request, exactly one 500 page
\* is written for it and the handler does not fail.
C7_RenderFailureRecovered ==
    \A r \in Reqs :
        renderFailed[r] =>
            /\ pc[r] # "rejected"
            /\ Len(responses[r]) = 1
            /\ responses[r][1].status = 500

\* C8 as stated: once the handler of a request whose span was started is
\* over, on the success path or a failure path, the span is ended.
C8_SpanEnded ==
    \A r \in Reqs : (span[r] # "none" /\ Finished(r)) => span[r] = "ended"

\* C9: a request for a path outside the page registry calls next() and nothing
\* else: no response, no signal, no renderHTML call, the resolver slot as it was.
C9_UnknownPathPassesThrough ==
    /\ [](\A r \in Reqs :
            (pc[r] # "idle" /\ reqPath[r] \notin Pages) =>
                /\ pc[r] = "passed"
                /\ nextCalled[r] = 1
                /\ responses[r] = << >>
                /\ sent[r] = 0
                /\ dispatched[r] = 0
                /\ outsideResolve # r)
    /\ [][\A r \in Reqs :
            (pc[r] = "idle" /\ pc'[r] # "idle" /\ reqPath'[r] \notin Pages) =>
                /\ outsideResolve' = outsideResolve
                /\ sent' = sent
                /\ responses' = responses
                /\ dispatched' = dispatched]_vars

\* An unknown path was passed through while another request's resolver was stored.
C9_Witness ==
    \E r \in Reqs :
        pc[r] = "passed" /\ reqPath[r] = "/nope" /\ outsideResolve \in Reqs \ {r}

\* C10: when renderHTML resolves for a request, the gate writes 200 with the
\* first element of the result as the body, and no other response.
C10_SuccessBody ==
    \A r \in Reqs :
        rendered[r] # NoRender =>
            responses[r] = << Response(200, rendered[r][1]) >>

\* A request was answered from a two-element render result.
C10_Witness ==
    \E r \in Reqs :
        /\ pc[r] = "done"
        /\ Len(rendered[r]) > 1
        /\ Len(responses[r]) = 1
        /\ responses[r][1].status = 200

\* ------------------------------------------------------------- pool claims

Unfinished(j) == jobState[j] = "pending"

Assigned == \E i \in 1..Len(calls) : calls[i][1] = "assign"

\* C4: once restartWorker has swapped the handle, a job submitted through
\* renderDevHTML is sent to the pool the handle names, never to a pool that
\* end() was called on.
C4_SubmissionNeverToEndedPool ==
    [][\A j \in Jobs :
          (jobState[j] = "none" /\ jobState'[j] = "pending") =>
              /\ jobPool'[j] = worker
              /\ jobPool'[j] \in 1..started
              /\ jobPool'[j] \notin ended]_vars

\* A job sent to the old pool before a restart, and a job pending on the new
\* pool after it.
C4_Witness ==
    \E j, k \in Jobs :
        /\ jobPool[k] \in ended
        /\ Unfinished(j)
        /\ jobPool[j] = worker
        /\ jobPool[j] # jobPool[k]

\* C5 as stated: end() is never called on a pool while a job submitted to it
\* is unfinished; no ended pool holds an unfinished job.
C5_NoEndWhileJobUnfinished ==
    \A j \in Jobs : Unfinished(j) => jobPool[j] \notin ended

\* C6: once a handle has been installed, the handle names a pool that was
\* started and on which end() was not called; every end() comes directly after
\* the start of another pool and the assignment of that pool to the handle.
C6_NoDispatchGap ==
    /\ Assigned => (worker \in 1..started /\ worker \notin ended)
    /\ \A i \in 1..Len(calls) :
          calls[i][1] = "end" =>
              /\ i > 2
              /\ calls[i - 1][1] = "assign"
              /\ calls[i - 2][1] = "start"
              /\ calls[i - 1][2] = calls[i - 2][2]
              /\ calls[i - 1][2] # calls[i][2]

\* initDevWorkerPool, then a restartWorker that ended the first pool.
C6_Witness ==
    /\ restartThrows = 0
    /\ ended # {}
    /\ worker \in 1..started
    /\ worker \notin ended

\* The warming calls of pool p that wait for or occupy its worker.
WarmingCallsOpen(p) ==
    Cardinality({i \in 1..Len(queue[p]) : queue[p][i] = WarmTask(p)})
        + (IF WarmTask(p) \in running[p] THEN 1 ELSE 0)

\* C11: startWorker issues exactly one warming call on the new pool and hands
\* the pool back, to initDevWorkerPool or restartWorker, which install it,
\* while that call is still pending; a pool never has a second warming call.
C11_WarmingNotAwaited ==
    /\ [][started' # started =>
            /\ started' = started + 1
            /\ queue'[started'] = << WarmTask(started') >>
            /\ running'[started'] = {}
            /\ warmState'[started'] = "pending"
            /\ worker' = started']_vars
    /\ [](\A p \in PoolIds :
            /\ p \in 1..started <=> warmState[p] # "none"
            /\ WarmingCallsOpen(p) = (IF warmState[p] = "pending" THEN 1 ELSE 0))

\* A caller's job waits on the installed pool while the pool's warming call
\* has not settled.
C11_Witness ==
    \E j \in Jobs :
        /\ Unfinished(j)
        /\ jobPool[j] = worker
        /\ warmState[worker] = "pending"

\* C12: when the worker's renderHTML fails for a job, renderDevHTML rejects
\* with that same error after one call to the worker; the step that rejects
\* starts no pool, ends no pool, leaves the handle alone and queues no call.
C12_FailurePropagatedUnchanged ==
    /\ [](\A j \in Jobs :
            workerValue[j].kind = "error" =>
                /\ jobState[j] = "rejected"
                /\ jobResult[j] = workerValue[j]
                /\ jobCalls[j] = 1)
    /\ [][\A j \in Jobs :
            (jobState[j] = "pending" /\ jobState'[j] = "rejected") =>
                /\ worker' = worker
                /\ started' = started
                /\ ended' = ended
                /\ queue' = queue
                /\ jobCalls' = jobCalls]_vars

\* A job was rejected with the worker's RenderError.
C12_Witness ==
    \E j \in Jobs :
        /\ jobState[j] = "rejected"
        /\ workerValue[j] = ErrorValue("RenderError")
        /\ jobResult[j] = ErrorValue("RenderError")

\* C13 as stated: renderDevHTML resolves with the first element of the
\* worker's render result, a single string.
C13_ResolvesWithFirstElement ==
    \A j \in Jobs :
        (jobState[j] = "resolved" /\ workerValue[j].kind = "array") =>
            jobResult[j] = StringValue(workerValue[j].items[1])

\* C13 amended: renderDevHTML makes one worker.renderHTML call for the job and
\* resolves with what that call resolved with, unchanged, whether it is a
\* sequence of strings or a string; it selects no element.
C13_ResolvesWithWorkerResult ==
    \A j \in Jobs :
        jobState[j] = "resolved" =>
            /\ workerValue[j].kind \in {"array", "string"}
            /\ jobResult[j] = workerValue[j]
            /\ jobCalls[j] = 1
            /\ jobPool[j] \in 1..started

\* A job resolved with the sequence the worker returned.
C13_Witness ==
    \E j \in Jobs :
        /\ jobState[j] = "resolved"
        /\ jobResult[j] = ArrayValue(<< "<html>About</html>" >>)

\* The caller jobs a worker is executing.
Executing == {j \in Jobs : \E p \in PoolIds : JobTask(j) \in running[p]}

\* initDevWorkerPool calls made: the assignments that are not restartWorker's
\* (each restartWorker assigns once and then ends a pool or raises).
CountCalls(op) == Cardinality({i \in 1..Len(calls) : calls[i][1] = op})
InitCalls == CountCalls("assign") - CountCalls("end") - restartThrows

\* C14 as stated: no two render jobs submitted by callers execute at the same
\* time, in any interleaving of renderDevHTML and restartWorker calls that
\* follows the one initDevWorkerPool call.
C14_JobsSerialized == InitCalls <= 1 => Cardinality(Executing) <= 1

\* ------------------------------------------------------------------ C15

\* C15: given an error whose stack is the single line `garbage`, the error
\* translator returns filename "", line 0 and column 0 and raises no
\* secondary error.
C15_GarbageDegradesGracefully ==
    (translation.called /\ translation.err = MakeError(TRUE, StackGarbage)) =>
        /\ translation.position = [filename |-> Defined(<< >>), line |-> Num(0), row |-> Num(0)]
        /\ ~translation.parsed.threw

\* ------------------------------------------------------------------ C16

\* In line l the text between positions i and j and the text between j and the
\* closing parenthesis are the two rightmost ":"-separated segments of the
\* parenthesised location, and both are runs of digits.
NumericSegmentsAt(l, i, j) ==
    /\ 1 <= i /\ i + 1 < j /\ j + 1 < Len(l)
    /\ l[Len(l)] = ")" /\ l[j] = ":"
    /\ \/ l[i] = ":" /\ \E k \in 1..(i - 1) : l[k] = "("
       \/ l[i] = "(" /\ \A k \in 1..(i - 1) : l[k] # "("
    /\ \A k \in (i + 1)..(j - 1) : l[k] \in Digits
    /\ \A k \in (j + 1)..(Len(l) - 1) : l[k] \in Digits

\* Line and column are the two rightmost numeric segments of the first stack
\* line that ends in a parenthesised location.
LineColumnRule ==
    (translation.called /\ translation.err.hasStack) =>
        LET ls == SplitOn(translation.err.stack, "\n")
        IN  \A n \in 1..Len(ls) :
                (TestParen(ls[n]) /\ \A m \in 1..(n - 1) : ~TestParen(ls[m])) =>
                    \A i, j \in 1..Len(ls[n]) :
                        NumericSegmentsAt(ls[n], i, j) =>
                            /\ translation.position.line
                                   = Num(DecimalValue(SubSeq(ls[n], i + 1, j - 1)))
                            /\ translation.position.row
                                   = Num(DecimalValue(SubSeq(ls[n], j + 1, Len(ls[n]) - 1)))

\* C16 as stated: the stack line `at f (/project/lib/render-page.js:42:7)` with
\* project root /project yields filename /project/render-page.js, line 42 and
\* column 7, and the line and column follow the general rule.
C16_FilenameWithoutLib ==
    /\ (translation.called /\ translation.err = MakeError(TRUE, LineRenderPage)) =>
           /\ translation.filename = Defined(ProgramDirectory \o << "/", "r", "e", "n", "d", "e", "r", "-", "p", "a", "g", "e", ".", "j", "s" >>)
           /\ translation.position.line = Num(42)
           /\ translation.position.row = Num(7)
    /\ LineColumnRule

\* C16, amended: the stack line `at f (/project/lib/render-page.js:42:7)` with
\* project root /project yields filename /project/lib/render-page.js (the two
\* elements dropped from the split path are the empty one before the leading
\* separator and `project`), line 42 and column 7, and the line and column
\* follow the general rule.
C16_FilenameLineColumn ==
    /\ (translation.called /\ translation.err = MakeError(TRUE, LineRenderPage)) =>
           /\ translation.filename = Defined(ProgramDirectory \o << "/", "l", "i", "b", "/", "r", "e", "n", "d", "e", "r", "-", "p", "a", "g", "e", ".", "j", "s" >>)
           /\ ~translation.parsed.threw
           /\ translation.parsed.filename = translation.filename.s
           /\ translation.parsed.line = Num(42) /\ translation.position.line = Num(42)
           /\ translation.parsed.row = Num(7) /\ translation.position.row = Num(7)
    /\ LineColumnRule

C16_Witness ==
    /\ translation.called
    /\ translation.err = MakeError(TRUE, LineRenderPage)
    /\ translation.position.filename = Defined(<< "/", "p", "r", "o", "j", "e", "c", "t", "/", "l", "i", "b", "/", "r", "e", "n", "d", "e", "r", "-", "p", "a", "g", "e", ".", "j", "s" >>)
    /\ translation.position.line = Num(42)
    /\ translation.position.row = Num(7)

\* ------------------------------------------------------------------ C17

Ack == "SEND_DEVELOP_HTML_RESPONSES"

\* C17: the gate holds one resolver slot; every known-page request overwrites
\* it with its own resolver, and an acknowledgment resumes the request whose
\* resolver was stored most recently when the event is received, never an
\* earlier one.
C17_MostRecentResolverResumed ==
    /\ [](outsideResolve = lastStored)
    /\ [][/\ \A r \in Reqs :
               (pc[r] = "idle" /\ pc'[r] = "awaitAck") => outsideResolve' = r
          /\ \A r \in Reqs :
               (pc[r] = "awaitAck" /\ pc'[r] = "acked") =>
                   /\ r = lastStored
                   /\ \A q \in Reqs \ {r} : pc'[q] = pc[q]
          /\ (Receive(Ack) /\ lastStored # NoReq /\ pc[lastStored] = "awaitAck") =>
                 pc'[lastStored] = "acked"]_vars

\* Two requests have stored their resolvers; the later one has been resumed by
\* an acknowledgment while the earlier one is still suspended.
C17_Witness ==
    \E r, q \in Reqs :
        /\ r # q /\ sent[r] = 1 /\ sent[q] = 1
        /\ lastStored = q /\ outsideResolve = q
        /\ ackSeen[q] /\ pc[q] \notin {"idle", "passed", "awaitAck"}
        /\ pc[r] = "awaitAck"

\* ------------------------------------------------------------------ C18

\* The request is suspended on its first promise and its resolver is no longer
\* the stored one.
Overwritten(r) == pc[r] = "awaitAck" /\ outsideResolve # NoReq /\ outsideResolve # r

\* C18: once a later known-page request has stored its resolver before the
\* earlier request's acknowledgment was received, the earlier request stays
\* suspended whatever acknowledgments follow: it makes no renderHTML call and
\* writes no response.
C18_OverwrittenNeverResumed ==
    /\ [](\A r \in Reqs :
            Overwritten(r) =>
                dispatched[r] = 0 /\ responses[r] = << >> /\ span[r] = "none")
    /\ [][\A r \in Reqs :
            Overwritten(r) =>
                /\ pc'[r] = "awaitAck" /\ outsideResolve' # NoReq /\ outsideResolve' # r
                /\ dispatched'[r] = 0 /\ responses'[r] = << >>]_vars

\* The earlier request is still suspended after acknowledgments for both
\* signals: one resumed the later request, which has finished, and one more
\* arrived after that.
C18_Witness ==
    \E r, q \in Reqs :
        /\ Overwritten(r) /\ outsideResolve = q
        /\ ackSeen[r] /\ ackSeen[q]
        /\ pc[q] = "done" /\ lateAck
        /\ dispatched[r] = 0 /\ responses[r] = << >>

\* ------------------------------------------------------------------ C19

\* C19: each known-page request sends exactly one request-received signal,
\* makes at most one renderHTML call and writes at most one response; an
\* acknowledgment received after the stored resolver was resolved causes no
\* further dispatch or response.
C19_OneSignalDispatchResponse ==
    /\ [](\A r \in Reqs :
            /\ reqPath[r] \in Pages =>
                   sent[r] = 1 /\ dispatched[r] <= 1 /\ Len(responses[r]) <= 1
            /\ reqPath[r] \notin Pages => sent[r] = 0 /\ dispatched[r] = 0)
    /\ [][(LateAcknowledgment(Ack) /\ Receive(Ack)) =>
             /\ pc' = pc
             /\ dispatched' = dispatched
             /\ responses' = responses
             /\ sent' = sent]_vars

\* An acknowledgment arrived after the request had been resumed; the request
\* has finished with one signal, one renderHTML call and one response.
C19_Witness ==
    /\ outsideResolve # NoReq
    /\ lateAck
    /\ pc[outsideResolve] = "done"
    /\ sent[outsideResolve] = 1
    /\ dispatched[outsideResolve] = 1
    /\ Len(responses[outsideResolve]) = 1

\* ------------------------------------------------------------------ C20

\* C20: an acknowledgment received while no request has stored a resolver is
\* not ignored: the listener calls the empty slot and raises, no request is
\* resumed and no response is written.
C20_AckOnEmptySlotRaises ==
    /\ []((outsideResolve = NoReq /\ receiveThrows < MaxThrows) =>
            ENABLED (/\ Receive(Ack)
                     /\ receiveThrows' = receiveThrows + 1
                     /\ UNCHANGED << poolVars, transVars >>))
    /\ [][/\ (Receive(Ack) /\ outsideResolve = NoReq) =>
                 receiveThrows' = receiveThrows + 1
          /\ receiveThrows' # receiveThrows =>
                 /\ outsideResolve = NoReq
                 /\ receiveThrows' = receiveThrows + 1
                 /\ pc' = pc
                 /\ responses' = responses
                 /\ dispatched' = dispatched]_vars

\* The listener has raised and no request has stored a resolver, been resumed
\* or been answered.
C20_Witness ==
    /\ receiveThrows > 0
    /\ outsideResolve = NoReq
    /\ \A r \in Reqs : pc[r] \in {"idle", "passed"} /\ responses[r] = << >> /\ sent[r] = 0

====
